---- MODULE Spec2Model ----
EXTENDS Integers, Sequences, FiniteSets, TLC

(***************************************************************************)
(* Model of the Coding Assistant command-line tool: config.py (credential  *)
(* loading), analyzer.py (directory walk and aggregation), gemini_client.py*)
(* (remote analysis call) and main.py (orchestration and report writing).  *)
(*                                                                         *)
(* Text is modelled as a sequence of tokens; a path as a record            *)
(* [abs, dirs, name] whose name is [stem, ext]; the aggregate as the       *)
(* sequence of its blocks (the "\n".join of non-empty blocks is empty      *)
(* exactly when there is no block).                                        *)
(***************************************************************************)

VARIABLES
    env,             \* value of GEMINI_API_KEY in the process environment
    argPath,         \* the --path argument: [abs, dirs]
    pathKind,        \* what the resolved --path is on disk: "dir", "file", "absent"
    tree,            \* files beneath the resolved --path, in directory-listing order
    pc,              \* position of the process
    caller,          \* "main" for a run of the tool, "direct" for a direct call of a component
    api_key,         \* Config.gemini_api_key
    directory_path,  \* the path handed to run / analyze_codebase: [abs, dirs]
    source_files,    \* analyzer: candidate list of _find_source_files
    idx,             \* analyzer: position of the loop of _aggregate_file_contents
    aggregated_parts,\* analyzer: blocks collected so far
    files_analyzed,  \* analyzer counter
    total_size,      \* analyzer counter
    code_context,    \* the aggregate returned by analyze_codebase
    suggestions,     \* the text returned by get_suggestions
    raised,          \* exception that left the last component call ("none" if it returned)
    stdout,          \* texts printed by run (connection test result, suggestions) in order
    writerArg,       \* the text handed to _save_suggestions_to_file
    reports,         \* files of analysis_output/: set of [name, content]
    now,             \* wall clock, in seconds
    warnings,        \* warnings printed by the report step (set of tags)
    phases,          \* history: phases of run entered so far
    calls,           \* history: blocking operations started so far
    exitCode,        \* process exit code, -1 while running
    validation,      \* history: how the test call of validate_api_key ended ("none" before)
    results,         \* history: how each analyze_codebase call ended: [returned, parts]
    runs             \* number of runs of the tool started so far

vars == <<env, argPath, pathKind, tree, pc, caller, api_key, directory_path,
          source_files, idx, aggregated_parts, files_analyzed, total_size,
          code_context, suggestions, raised, stdout, writerArg, reports, now,
          warnings, phases, calls, exitCode, validation, results, runs>>

----------------------------------------------------------------------------
\* Bounds of the model

MaxFiles == 3        \* files in the scanned tree
MaxClock == 1        \* latest second the clock can show
MaxRuns == 2         \* runs of the tool, one after the other
MaxCalls == 2        \* analyze_codebase calls on one CodeAnalyzer instance

----------------------------------------------------------------------------
\* analyzer.py: class constants

SUPPORTED_EXTENSIONS ==
    {".py", ".js", ".ts", ".jsx", ".tsx", ".go", ".java", ".cs", ".cpp", ".c",
     ".rb", ".rs", ".php", ".kt", ".swift", ".scala"}

IGNORED_DIRECTORIES ==
    {"__pycache__", ".venv", "venv", ".env", ".git", "node_modules", ".next",
     "dist", "build", "target", ".gradle", ".idea", ".vscode", ".pytest_cache",
     ".mypy_cache", ".tox", "htmlcov", ".coverage", ".DS_Store"}

MAX_CONTENT_BYTES == 1048576

\* str.lower() on the extensions and error-text tokens that occur
Lower(s) ==
    CASE s = ".PY"   -> ".py"
      [] s = ".Js"   -> ".js"
      [] s = "Quota" -> "quota"
      [] s = "QUOTA" -> "quota"
      [] s = "API_KEY" -> "api_key"
      [] s = "Network" -> "network"
      [] OTHER -> s

\* str.upper() on the tokens that occur
Upper(s) ==
    CASE s = "api_key" -> "API_KEY"
      [] s = "quota"   -> "QUOTA"
      [] s = "Quota"   -> "QUOTA"
      [] s = "network" -> "NETWORK"
      [] s = "Network" -> "NETWORK"
      [] s = "timeout" -> "TIMEOUT"
      [] OTHER -> s

\* _get_language_from_extension
LanguageOf(extension) ==
    LET e == Lower(extension) IN
    CASE e = ".py" -> "Python"
      [] e = ".js" -> "JavaScript"
      [] e = ".jsx" -> "React JavaScript"
      [] e = ".ts" -> "TypeScript"
      [] e = ".tsx" -> "React TypeScript"
      [] e = ".go" -> "Go"
      [] e = ".java" -> "Java"
      [] e = ".cs" -> "C#"
      [] e = ".cpp" -> "C++"
      [] e = ".c" -> "C"
      [] e = ".rb" -> "Ruby"
      [] e = ".rs" -> "Rust"
      [] e = ".php" -> "PHP"
      [] e = ".kt" -> "Kotlin"
      [] e = ".swift" -> "Swift"
      [] e = ".scala" -> "Scala"
      [] OTHER -> "Unknown"

----------------------------------------------------------------------------
\* The filesystem the tool is run on

\* File contents that occur, and len(content.encode('utf-8')) of each
Contents == {"", "print(1)", "EXACTLY_1MiB", "OVER_1MiB"}

Utf8Len(content) ==
    CASE content = "" -> 0
      [] content = "print(1)" -> 8
      [] content = "EXACTLY_1MiB" -> MAX_CONTENT_BYTES
      [] content = "OVER_1MiB" -> MAX_CONTENT_BYTES + 1

\* What open()/read() of a file does: "ok", or the exception it raises
ReadStates == {"ok", "UnicodeDecodeError", "PermissionError", "FileNotFoundError"}

FileName(stem, ext) == [stem |-> stem, ext |-> ext]

\* The places a file can be at beneath the scanned root, in listing order
Places ==
    << [dir |-> <<"pkg">>, name |-> FileName("b", ".PY")],
       [dir |-> <<>>, name |-> FileName("a", ".py")],
       [dir |-> <<"build">>, name |-> FileName("c", ".py")],
       [dir |-> <<>>, name |-> FileName("notes", ".txt")],
       [dir |-> <<"pkg", "node_modules">>, name |-> FileName("d", ".Js")],
       [dir |-> <<"pkg">>, name |-> FileName("Makefile", "")],
       [dir |-> <<"pkg">>, name |-> FileName("e", ".go")] >>

\* The states a file at place i can be in (files the walk must never read
\* come in one state)
FileStates(i) ==
    IF i \in {1, 2}
    THEN {[content |-> c, read |-> "ok"] : c \in Contents}
         \cup {[content |-> "print(1)", read |-> r] : r \in ReadStates \ {"ok"}}
    ELSE IF i = 7
    THEN {[content |-> "print(1)", read |-> "ok"],
          [content |-> "print(1)", read |-> "UnicodeDecodeError"]}
    ELSE {[content |-> "print(1)", read |-> "ok"]}

FileAt(i, st) ==
    [dir |-> Places[i].dir, name |-> Places[i].name,
     content |-> st.content, read |-> st.read]

RECURSIVE TreesFrom(_, _)
\* All trees of at most n files at places i.., each a sequence in listing order
TreesFrom(i, n) ==
    IF i > Len(Places) \/ n = 0 THEN {<<>>}
    ELSE TreesFrom(i + 1, n)
         \cup {<<FileAt(i, st)>> \o t : st \in FileStates(i), t \in TreesFrom(i + 1, n - 1)}

Trees == TreesFrom(1, MaxFiles)

\* The --path arguments tried, the working directory being /work
Cwd == <<"work">>

ArgPaths ==
    { [abs |-> TRUE,  dirs |-> <<"tmp", "proj">>],
      [abs |-> FALSE, dirs |-> <<"build">>],
      [abs |-> FALSE, dirs |-> <<>>] }

\* Path(args.path).resolve()
Resolve(p) == IF p.abs THEN p ELSE [abs |-> TRUE, dirs |-> Cwd \o p.dirs]

EnvValues == {"<unset>", "", "  ", "k3y"}

\* str.strip() on the credential values that occur
StripKey(s) == IF s = "  " THEN "" ELSE s

----------------------------------------------------------------------------
\* analyzer.py: CodeAnalyzer

IsPrefix(p, q) == Len(p) <= Len(q) /\ SubSeq(q, 1, Len(p)) = p

\* Mutant of KeepDir: the filtered list is not assigned back into dirs, so
\* nothing is pruned
KeepDir_NoPruning(d) == TRUE

\* line 122: a directory name survives dirs[:] = [d for d in dirs if d not in ...]
KeepDir(d) == d \notin IGNORED_DIRECTORIES

\* Mutant of IsSourceFile: the extension filter is lost
IsSourceFile_AnyExtension(name) == TRUE

\* line 126: file_path.suffix.lower() in self.SUPPORTED_EXTENSIONS
IsSourceFile(name) == Lower(name.ext) \in SUPPORTED_EXTENSIONS

RECURSIVE SubDirs(_, _, _)
\* os.walk: the names of the subdirectories of directory d, in listing order
SubDirs(t, d, seen) ==
    IF t = <<>> THEN <<>>
    ELSE LET e == Head(t)
             below == Len(e.dir) > Len(d) /\ IsPrefix(d, e.dir)
             nm == e.dir[Len(d) + 1]
         IN IF below /\ nm \notin seen
            THEN <<nm>> \o SubDirs(Tail(t), d, seen \cup {nm})
            ELSE SubDirs(Tail(t), d, seen)

RECURSIVE OsWalk(_, _), WalkDirs(_, _, _)
\* os.walk(directory), top-down: the qualifying files of directory d, then the
\* walk of each subdirectory that is kept
OsWalk(t, d) ==
    SelectSeq(t, LAMBDA e : e.dir = d /\ IsSourceFile(e.name))
    \o WalkDirs(t, d, SelectSeq(SubDirs(t, d, {}), KeepDir))

WalkDirs(t, d, names) ==
    IF names = <<>> THEN <<>>
    ELSE OsWalk(t, d \o <<Head(names)>>) \o WalkDirs(t, d, Tail(names))

\* line 125: file_path = Path(root) / file, with what reading it will do
Candidate(directory, e) ==
    [path |-> [abs |-> directory.abs, dirs |-> directory.dirs \o e.dir, name |-> e.name],
     content |-> e.content, read |-> e.read]

\* _find_source_files(directory)
FindSourceFiles(directory, t) ==
    LET w == OsWalk(t, <<>>)
    IN [i \in 1..Len(w) |-> Candidate(directory, w[i])]

\* Mutant of TooLarge: >= instead of >
TooLarge_OffByOne(content) == Utf8Len(content) >= MAX_CONTENT_BYTES

\* line 182: len(content.encode('utf-8')) > 1024 * 1024
TooLarge(content) == Utf8Len(content) > MAX_CONTENT_BYTES

\* _read_file_content(file_path): what it raises and what it returns
ReadFileContent(f) ==
    IF f.read # "ok" THEN [raised |-> f.read, content |-> ""]
    ELSE IF TooLarge(f.content) THEN [raised |-> "none", content |-> ""]
    ELSE [raised |-> "none", content |-> f.content]

\* file_path.parents[-1]: the anchor of an absolute path, "." of a relative one
ParentsLast(p) == [abs |-> p.abs, dirs |-> <<>>]

\* file_path.relative_to(base)
RelativeTo(p, base) ==
    [abs |-> FALSE,
     dirs |-> SubSeq(p.dirs, Len(base.dirs) + 1, Len(p.dirs)),
     name |-> p.name]

\* line 147: relative_path = file_path.relative_to(file_path.parents[-1])
RelativePath(p) == RelativeTo(p, ParentsLast(p))

\* lines 148-153: the block of an included file (header labels and content)
Block(f, content) ==
    [file |-> RelativePath(f.path),
     language |-> LanguageOf(f.path.name.ext),
     content |-> content]

\* Mutant of CaughtByAggregate: only PermissionError is caught
CaughtByAggregate_PermissionOnly(exc) == exc = "PermissionError"

\* Mutant of CaughtByAggregate: a file that has disappeared is skipped too
CaughtByAggregate_AnyReadError(exc) ==
    exc \in {"PermissionError", "UnicodeDecodeError", "FileNotFoundError"}

\* line 157: except (PermissionError, UnicodeDecodeError)
CaughtByAggregate(exc) == exc \in {"PermissionError", "UnicodeDecodeError"}

\* Mutant of AggregateOne: the test of line 146 is lost, a file read without
\* error gets its block whatever _read_file_content returned
AggregateOne_KeepsEmpty(st, f) ==
    LET r == ReadFileContent(f) IN
    IF r.raised # "none"
    THEN IF CaughtByAggregate(r.raised) THEN st
         ELSE [st EXCEPT !.raised = r.raised]
    ELSE [parts |-> Append(st.parts, Block(f, r.content)),
          files_analyzed |-> st.files_analyzed + 1,
          total_size |-> st.total_size + Utf8Len(r.content),
          raised |-> "none"]

\* Mutant of AggregateOne: the counters are advanced for every file read, also
\* for one whose content is empty or too large
AggregateOne_CountsSkipped(st, f) ==
    LET r == ReadFileContent(f) IN
    IF r.raised # "none"
    THEN IF CaughtByAggregate(r.raised) THEN st
         ELSE [st EXCEPT !.raised = r.raised]
    ELSE [parts |-> IF r.content # "" THEN Append(st.parts, Block(f, r.content))
                    ELSE st.parts,
          files_analyzed |-> st.files_analyzed + 1,
          total_size |-> st.total_size + Utf8Len(f.content),
          raised |-> "none"]

\* lines 143-159: one iteration of the loop of _aggregate_file_contents on the
\* analyzer state st = [parts, files_analyzed, total_size, raised]
AggregateOne(st, f) ==
    LET r == ReadFileContent(f) IN
    IF r.raised # "none"
    THEN IF CaughtByAggregate(r.raised) THEN st
         ELSE [st EXCEPT !.raised = r.raised]
    ELSE IF r.content # ""
         THEN [parts |-> Append(st.parts, Block(f, r.content)),
               files_analyzed |-> st.files_analyzed + 1,
               total_size |-> st.total_size + Utf8Len(r.content),
               raised |-> "none"]
         ELSE st

RECURSIVE AggregateFileContents(_, _)
\* lines 141-161: the loop of _aggregate_file_contents over file_paths, from
\* the analyzer state st; it stops at the first exception it does not catch
AggregateFileContents(file_paths, st) ==
    IF file_paths = <<>> \/ st.raised # "none" THEN st
    ELSE AggregateFileContents(Tail(file_paths), AggregateOne(st, Head(file_paths)))

\* __init__ (lines 62-63) and line 141: a fresh analyzer starting an aggregation
FreshAnalyzer ==
    [parts |-> <<>>, files_analyzed |-> 0, total_size |-> 0, raised |-> "none"]

----------------------------------------------------------------------------
\* gemini_client.py: GeminiClient

\* What a generate_content call can do: return a response with a text, or raise
ResponseTexts == {<<>>, <<"suggestion">>, <<" ", "suggestion", " ">>}

ErrorTexts ==
    { <<"timeout">>, <<"quota", "exceeded">>, <<"Quota">>, <<"API_KEY", "invalid">>,
      <<"api_key", "quota">>, <<"network", "unreachable">>, <<"quota", "network">> }

RemoteOutcomes ==
    {[kind |-> "response", text |-> t] : t \in ResponseTexts}
    \cup {[kind |-> "Exception", text |-> t] : t \in ErrorTexts}
    \cup {[kind |-> "KeyboardInterrupt", text |-> <<>>]}

\* str.strip() of a response text
RECURSIVE LStrip(_)
LStrip(t) == IF t # <<>> /\ Head(t) = " " THEN LStrip(Tail(t)) ELSE t

RECURSIVE RStrip(_)
RStrip(t) ==
    IF t # <<>> /\ t[Len(t)] = " " THEN RStrip(SubSeq(t, 1, Len(t) - 1)) ELSE t

Strip(t) == RStrip(LStrip(t))

\* line 40: not code_context.strip(), for a text made of blocks and whitespace
IsBlank(text) == \A i \in 1..Len(text) : DOMAIN text[i] = {"ws"}

Contains(text, token) == \E i \in 1..Len(text) : text[i] = token

UpperText(t) == [i \in 1..Len(t) |-> Upper(t[i])]
LowerText(t) == [i \in 1..Len(t) |-> Lower(t[i])]

\* Mutant of TroubleshootingHint: the network test comes before the quota test
TroubleshootingHint_NetworkFirst(etext) ==
    IF Contains(UpperText(etext), "API_KEY") THEN <<"HINT_API_KEY">>
    ELSE IF Contains(LowerText(etext), "network") THEN <<"HINT_NETWORK">>
    ELSE IF Contains(LowerText(etext), "quota") THEN <<"HINT_QUOTA">>
    ELSE <<>>

\* lines 66-71: the troubleshooting hint appended for an error text
TroubleshootingHint(etext) ==
    IF Contains(UpperText(etext), "API_KEY") THEN <<"HINT_API_KEY">>
    ELSE IF Contains(LowerText(etext), "quota") THEN <<"HINT_QUOTA">>
    ELSE IF Contains(LowerText(etext), "network") THEN <<"HINT_NETWORK">>
    ELSE <<>>

\* _format_response(response_text)
FormatResponse(response_text) ==
    <<"RESULTS_BANNER">> \o Strip(response_text) \o <<"RESULTS_FOOTER">>

\* Mutant of CaughtByGetSuggestions: the handler is lost
CaughtByGetSuggestions_Nothing(exc) == FALSE

\* line 61: except Exception
CaughtByGetSuggestions(exc) == exc = "Exception"

\* lines 49-73: what get_suggestions does with the outcome of the remote call
SuggestionsFor(outcome) ==
    IF outcome.kind = "response"
    THEN [raised |-> "none",
          value |-> IF outcome.text # <<>> THEN FormatResponse(outcome.text)
                    ELSE <<"NO_RESPONSE">>]
    ELSE IF CaughtByGetSuggestions(outcome.kind)
    THEN [raised |-> "none",
          value |-> <<"ERROR_PREFIX">> \o outcome.text \o TroubleshootingHint(outcome.text)]
    ELSE [raised |-> outcome.kind, value |-> <<>>]

\* How a remote call ended: with a text, with an empty text, or the exception
OutcomeClass(outcome) ==
    IF outcome.kind # "response" THEN outcome.kind
    ELSE IF outcome.text # <<>> THEN "text" ELSE "empty"

\* Mutant of ValidateResult: any response counts, its text is not looked at
ValidateResult_AnyResponse(outcome) ==
    IF outcome.kind = "response" THEN [raised |-> "none", value |-> TRUE]
    ELSE IF outcome.kind = "Exception" THEN [raised |-> "none", value |-> FALSE]
    ELSE [raised |-> outcome.kind, value |-> FALSE]

\* lines 128-133: validate_api_key on the outcome of its test call
ValidateResult(outcome) ==
    IF outcome.kind = "response" THEN [raised |-> "none", value |-> outcome.text # <<>>]
    ELSE IF outcome.kind = "Exception" THEN [raised |-> "none", value |-> FALSE]
    ELSE [raised |-> outcome.kind, value |-> FALSE]

----------------------------------------------------------------------------
\* config.py

\* _get_gemini_api_key on the value of os.getenv('GEMINI_API_KEY')
GetGeminiApiKey(e) ==
    IF e \in {"<unset>", ""}
    THEN [raised |-> "ValueError", value |-> ""]
    ELSE [raised |-> "none", value |-> StripKey(e)]

----------------------------------------------------------------------------
\* main.py: the report file

\* Mutant of ReportContent: a failure message is kept out of the report
ReportContent_HidesFailure(text, directory) ==
    [directory |-> directory,
     body |-> IF text # <<>> /\ Head(text) = "ERROR_PREFIX"
              THEN <<"REPORT_HEADER", "REPORT_END">>
              ELSE <<"REPORT_HEADER">> \o text \o <<"REPORT_END">>]

\* lines 127-137: the content written to the report file
ReportContent(text, directory) ==
    [directory |-> directory,
     body |-> <<"REPORT_HEADER">> \o text \o <<"REPORT_END">>]

\* open(filepath, 'w') and write: the file of that name is created or replaced
WriteReport(files, name, content) ==
    {r \in files : r.name # name} \cup {[name |-> name, content |-> content]}

\* What the filesystem does to the report step
SaveOutcomes == {"ok", "mkdir_fails", "open_fails"}

\* Mutant of SaveRaises: the try block starts after mkdir, whose error leaves
\* the report step
SaveRaises_MkdirOutsideTry(outcome) ==
    IF outcome = "mkdir_fails" THEN "OSError" ELSE "none"

\* lines 119, 144-145: the exception that leaves _save_suggestions_to_file for
\* an outcome of mkdir/open/write: none, except Exception catches them all
SaveRaises(outcome) == "none"

\* Mutant of InterruptExit: the handler of run returns 0 like the one of main
InterruptExit_AlwaysZero(at) == 0

\* main.py lines 66-68 and 210-212: the exit code after a KeyboardInterrupt
\* that arrives at position at: run returns 1, main outside run returns 0
InterruptExit(at) == IF at = "main" THEN 0 ELSE 1

----------------------------------------------------------------------------
\* The state machine

inputVars == <<env, argPath, pathKind, tree>>
analyzerVars == <<source_files, idx, aggregated_parts, files_analyzed, total_size>>
reportVars == <<writerArg, reports, now, warnings>>
histVars == <<validation, results, runs>>

InRun == pc \in {"run", "validating", "scan", "aggregating", "analyze", "analyzing", "saving"}

\* The process ends with an exit code
Exit(code) == pc' = "exited" /\ exitCode' = code

\* A component called directly hands control back to its caller
Returned == pc' = "returned" /\ exitCode' = exitCode

InitCommon ==
    /\ source_files = <<>>
    /\ idx = 0
    /\ aggregated_parts = <<>>
    /\ files_analyzed = 0
    /\ total_size = 0
    /\ suggestions = <<>>
    /\ raised = "none"
    /\ stdout = <<>>
    /\ writerArg = <<>>
    /\ reports = {}
    /\ now = 0
    /\ warnings = {}
    /\ phases = <<>>
    /\ calls = <<>>
    /\ exitCode = -1
    /\ validation = "none"
    /\ results = <<>>
    /\ runs = 1

\* The tool is started: python main.py --path <argPath>
Init ==
    /\ env \in EnvValues
    /\ argPath \in ArgPaths
    /\ pathKind \in {"dir", "file", "absent"}
    /\ tree \in (IF pathKind = "dir" THEN Trees ELSE {<<>>})
    /\ pc = "import"
    /\ caller = "main"
    /\ directory_path = [abs |-> TRUE, dirs |-> <<>>]
    /\ api_key = ""
    /\ code_context = <<>>
    /\ InitCommon

\* config.py line 51, run by the imports of main.py: config = Config()
ImportConfig ==
    /\ pc = "import"
    /\ LET k == GetGeminiApiKey(env) IN
       IF k.raised # "none"
       THEN /\ raised' = k.raised
            /\ Exit(1)
            /\ UNCHANGED api_key
       ELSE /\ api_key' = k.value
            /\ pc' = "main"
            /\ UNCHANGED <<raised, exitCode>>
    /\ UNCHANGED <<histVars, inputVars, caller, directory_path, analyzerVars, code_context,
                   suggestions, stdout, reportVars, phases, calls>>

\* main.py lines 193-208: main() up to the call of run
Main ==
    /\ pc = "main"
    /\ \E clientRaises \in BOOLEAN :
        /\ clientRaises => api_key = ""
        /\ IF pathKind # "dir"
           THEN Exit(1) /\ UNCHANGED <<raised, directory_path>>
           ELSE IF clientRaises
           THEN Exit(1) /\ raised' = "ValueError" /\ UNCHANGED directory_path
           ELSE /\ directory_path' = Resolve(argPath)
                /\ pc' = "run"
                /\ UNCHANGED <<raised, exitCode>>
    /\ UNCHANGED <<histVars, inputVars, caller, api_key, analyzerVars, code_context,
                   suggestions, stdout, reportVars, phases, calls>>

\* main.py lines 46-48, 93-103: run enters _validate_environment, which reads
\* config.api_key and starts the test call of validate_api_key
RunValidateEnvironment ==
    /\ pc = "run"
    /\ phases' = Append(phases, "EnvironmentCheck")
    /\ calls' = Append(calls, "validate")
    /\ pc' = "validating"
    /\ UNCHANGED <<histVars, inputVars, caller, api_key, directory_path, analyzerVars,
                   code_context, suggestions, raised, stdout, reportVars, exitCode>>

\* Mutant of AfterValidation: the result of the connection test is ignored
AfterValidation_Ignored(ok) == "scan"

\* Mutant of AfterValidation: run skips the scan
AfterValidation_SkipsScan(ok) == IF ok THEN "analyze" ELSE "exited"

\* Where run goes when validate_api_key has returned ok (lines 48-49, 103-109)
AfterValidation(ok) == IF ok THEN "scan" ELSE "exited"

\* Mutant of AfterScan: run hands every aggregate to the analysis step
AfterScan_Always(context) == "analyze"

\* Where run goes with the aggregate of analyze_codebase (lines 54-58)
AfterScan(context) == IF context = <<>> THEN "exited" ELSE "analyze"

\* gemini_client.py lines 120-133 and main.py lines 48-49, 103-109: the test
\* call ends and run goes on or returns 1
ValidateApiKeyReturn ==
    /\ pc = "validating"
    /\ \E outcome \in RemoteOutcomes :
        LET v == ValidateResult(outcome) IN
        /\ validation' = OutcomeClass(outcome)
        /\ IF v.raised # "none"
           THEN raised' = v.raised /\ Exit(InterruptExit(pc)) /\ UNCHANGED stdout
           ELSE /\ raised' = raised
                /\ stdout' = Append(stdout, IF v.value THEN <<"API_CONNECTION_OK">>
                                                       ELSE <<"API_CONNECTION_FAILED">>)
                /\ pc' = AfterValidation(v.value)
                /\ exitCode' = IF pc' = "exited" THEN 1 ELSE exitCode
    /\ UNCHANGED <<results, runs, inputVars, caller, api_key, directory_path, analyzerVars,
                   code_context, suggestions, reportVars, phases, calls>>

\* Mutant of NewParts: the list of blocks lives on the instance and is kept
\* from one call to the next
NewParts_Kept(old) == old

\* analyzer.py line 141: aggregated_parts = [], whatever an earlier call left
NewParts(old) == <<>>

\* main.py lines 52-56 and analyzer.py lines 79-97: analyze_codebase checks the
\* directory and walks it
AnalyzeCodebase ==
    /\ pc = "scan"
    /\ phases' = IF caller = "main" THEN Append(phases, "Scan") ELSE phases
    /\ IF pathKind # "dir"
       THEN /\ raised' = IF pathKind = "absent" THEN "FileNotFoundError" ELSE "ValueError"
            /\ results' = Append(results, [returned |-> FALSE, parts |-> <<>>])
            /\ IF caller = "main" THEN Exit(1) ELSE Returned
            /\ UNCHANGED <<analyzerVars, code_context, calls>>
       ELSE /\ calls' = Append(calls, "walk")
            /\ source_files' = FindSourceFiles(directory_path, tree)
            /\ aggregated_parts' = NewParts(aggregated_parts)
            /\ UNCHANGED <<files_analyzed, total_size, raised>>
            /\ IF source_files' = <<>>
               THEN /\ code_context' = <<>>
                    /\ results' = Append(results, [returned |-> TRUE, parts |-> <<>>])
                    /\ idx' = 0
                    /\ IF caller # "main" THEN Returned
                       ELSE /\ pc' = AfterScan(code_context')
                            /\ exitCode' = IF pc' = "exited" THEN 1 ELSE exitCode
               ELSE /\ idx' = 1
                    /\ pc' = "aggregating"
                    /\ UNCHANGED <<code_context, exitCode, results>>
    /\ UNCHANGED <<validation, runs, inputVars, caller, api_key, directory_path,
                   suggestions, stdout, reportVars>>

\* analyzer.py lines 143-159: one iteration of the loop over the candidates
AggregateStep ==
    /\ pc = "aggregating"
    /\ idx <= Len(source_files)
    /\ LET st == AggregateOne([parts |-> aggregated_parts,
                               files_analyzed |-> files_analyzed,
                               total_size |-> total_size,
                               raised |-> "none"], source_files[idx])
       IN /\ aggregated_parts' = st.parts
          /\ files_analyzed' = st.files_analyzed
          /\ total_size' = st.total_size
          /\ raised' = st.raised
          /\ IF st.raised # "none"
             THEN /\ (IF caller = "main" THEN Exit(1) ELSE Returned)
                  /\ results' = Append(results, [returned |-> FALSE, parts |-> st.parts])
                  /\ UNCHANGED idx
             ELSE idx' = idx + 1 /\ UNCHANGED <<pc, exitCode, results>>
    /\ UNCHANGED <<validation, runs, inputVars, caller, api_key, directory_path, source_files,
                   code_context, suggestions, stdout, reportVars, phases, calls>>

\* analyzer.py lines 161, 102-106 and main.py lines 54-56: the aggregate is
\* returned to run, which stops on an empty one
AggregateReturn ==
    /\ pc = "aggregating"
    /\ idx > Len(source_files)
    /\ code_context' = aggregated_parts
    /\ results' = Append(results, [returned |-> TRUE, parts |-> aggregated_parts])
    /\ IF caller # "main" THEN Returned
       ELSE /\ pc' = AfterScan(code_context')
            /\ exitCode' = IF pc' = "exited" THEN 1 ELSE exitCode
    /\ UNCHANGED <<validation, runs, inputVars, caller, api_key, directory_path, analyzerVars,
                   suggestions, raised, stdout, reportVars, phases, calls>>

\* main.py line 58 and gemini_client.py lines 40-53: get_suggestions is called
\* and starts the remote call, unless the text is blank
GetSuggestionsCall ==
    /\ pc = "analyze"
    /\ phases' = IF caller = "main" THEN Append(phases, "Analyze") ELSE phases
    /\ IF IsBlank(code_context)
       THEN /\ suggestions' = <<"NO_CONTENT">>
            /\ IF caller = "main"
               THEN /\ stdout' = Append(stdout, suggestions')
                    /\ pc' = "saving"
                    /\ UNCHANGED exitCode
               ELSE Returned /\ UNCHANGED stdout
            /\ UNCHANGED calls
       ELSE /\ calls' = Append(calls, "analysis")
            /\ pc' = "analyzing"
            /\ UNCHANGED <<suggestions, stdout, exitCode>>
    /\ UNCHANGED <<histVars, inputVars, caller, api_key, directory_path, analyzerVars,
                   code_context, raised, reportVars>>

\* gemini_client.py lines 55-73 and main.py lines 58-60, 66-71: the remote call
\* ends, get_suggestions returns or raises, run prints the text
GetSuggestionsReturn ==
    /\ pc = "analyzing"
    /\ \E outcome \in RemoteOutcomes :
        LET r == SuggestionsFor(outcome) IN
        /\ raised' = r.raised
        /\ IF r.raised # "none"
           THEN /\ IF caller # "main" THEN Returned
                   ELSE Exit(IF r.raised = "KeyboardInterrupt"
                             THEN InterruptExit(pc) ELSE 1)
                /\ UNCHANGED <<suggestions, stdout>>
           ELSE /\ suggestions' = r.value
                /\ IF caller = "main"
                   THEN /\ stdout' = Append(stdout, r.value)
                        /\ pc' = "saving"
                        /\ UNCHANGED exitCode
                   ELSE Returned /\ UNCHANGED stdout
    /\ UNCHANGED <<histVars, inputVars, caller, api_key, directory_path, analyzerVars,
                   code_context, reportVars, phases, calls>>

\* main.py lines 62-64, 119-145: _save_suggestions_to_file, then run returns 0
SaveSuggestions ==
    /\ pc = "saving"
    /\ writerArg' = suggestions
    /\ \E outcome \in SaveOutcomes, t \in now..MaxClock :
        IF outcome = "ok"
        THEN /\ now' = t
             /\ reports' = WriteReport(reports, t, ReportContent(suggestions, directory_path))
             /\ calls' = Append(calls, "write")
             /\ phases' = phases \o <<"Report", "Done">>
             /\ Exit(0)
             /\ UNCHANGED <<warnings, raised>>
        ELSE /\ calls' = IF outcome = "open_fails" THEN Append(calls, "write") ELSE calls
             /\ UNCHANGED <<now, reports>>
             /\ IF SaveRaises(outcome) = "none"
                THEN /\ warnings' = warnings \cup {"could_not_save"}
                     /\ phases' = phases \o <<"Report", "Done">>
                     /\ Exit(0)
                     /\ UNCHANGED raised
                ELSE /\ raised' = SaveRaises(outcome)
                     /\ phases' = Append(phases, "Report")
                     /\ Exit(1)
                     /\ UNCHANGED warnings
    /\ UNCHANGED <<histVars, inputVars, caller, api_key, directory_path, analyzerVars,
                   code_context, suggestions, stdout>>

\* main.py lines 66-68, 210-212: the user interrupts the process between two
\* blocking calls (an interruption of a remote call is one of its outcomes)
Interrupt ==
    /\ pc \in {"main", "run", "scan", "aggregating", "analyze", "saving"}
    /\ caller = "main"
    /\ raised' = "KeyboardInterrupt"
    /\ Exit(InterruptExit(pc))
    /\ UNCHANGED <<histVars, inputVars, caller, api_key, directory_path, analyzerVars,
                   code_context, suggestions, stdout, reportVars, phases, calls>>

Next ==
    \/ ImportConfig
    \/ Main
    \/ RunValidateEnvironment
    \/ ValidateApiKeyReturn
    \/ AnalyzeCodebase
    \/ AggregateStep
    \/ AggregateReturn
    \/ GetSuggestionsCall
    \/ GetSuggestionsReturn
    \/ SaveSuggestions
    \/ Interrupt

Spec == Init /\ [][Next]_vars

----------------------------------------------------------------------------
\* analyze_codebase called directly, several times on one CodeAnalyzer

\* analyzer.py lines 60-65: a new CodeAnalyzer, and the first call of
\* analyze_codebase with the path as the caller wrote it
InitAnalyzer ==
    /\ env = "k3y"
    /\ argPath \in ArgPaths
    /\ pathKind \in {"dir", "file", "absent"}
    /\ tree \in (IF pathKind = "dir" THEN Trees ELSE {<<>>})
    /\ pc = "scan"
    /\ caller = "direct"
    /\ directory_path = argPath
    /\ api_key = "k3y"
    /\ code_context = <<>>
    /\ InitCommon

\* analyzer.py line 65: the caller, who has the result or the exception of a
\* call, calls analyze_codebase again on the same instance and the same path
CallAgain ==
    /\ pc = "returned"
    /\ Len(results) < MaxCalls
    /\ pc' = "scan"
    /\ raised' = "none"
    /\ UNCHANGED <<histVars, inputVars, caller, api_key, directory_path, analyzerVars,
                   code_context, suggestions, stdout, reportVars, phases, calls, exitCode>>

NextAnalyzer ==
    \/ AnalyzeCodebase
    \/ AggregateStep
    \/ AggregateReturn
    \/ CallAgain

SpecAnalyzer == InitAnalyzer /\ [][NextAnalyzer]_vars

----------------------------------------------------------------------------
\* The tool run several times in one working directory

\* The trees of the runs: an empty directory and one with a single source file
RunTrees == {<<>>, <<FileAt(2, [content |-> "print(1)", read |-> "ok"])>>}

InitRuns ==
    /\ env = "k3y"
    /\ argPath = [abs |-> TRUE, dirs |-> <<"tmp", "proj">>]
    /\ pathKind = "dir"
    /\ tree \in RunTrees
    /\ pc = "import"
    /\ caller = "main"
    /\ directory_path = [abs |-> TRUE, dirs |-> <<>>]
    /\ api_key = ""
    /\ code_context = <<>>
    /\ InitCommon

\* main.py lines 218-219: after sys.exit the tool is started again; the new process
\* has new objects, and finds analysis_output and the clock as they are
Restart ==
    /\ pc = "exited"
    /\ runs < MaxRuns
    /\ runs' = runs + 1
    /\ pc' = "import"
    /\ directory_path' = [abs |-> TRUE, dirs |-> <<>>]
    /\ api_key' = ""
    /\ code_context' = <<>>
    /\ source_files' = <<>>
    /\ idx' = 0
    /\ aggregated_parts' = <<>>
    /\ files_analyzed' = 0
    /\ total_size' = 0
    /\ suggestions' = <<>>
    /\ raised' = "none"
    /\ stdout' = <<>>
    /\ writerArg' = <<>>
    /\ warnings' = {}
    /\ phases' = <<>>
    /\ calls' = <<>>
    /\ exitCode' = -1
    /\ validation' = "none"
    /\ results' = <<>>
    /\ UNCHANGED <<inputVars, caller, reports, now>>

NextRuns ==
    \/ Next
    \/ Restart

SpecRuns == InitRuns /\ [][NextRuns]_vars

----------------------------------------------------------------------------
\* get_suggestions called directly, on any text

Whitespace == [ws |-> " "]

\* The texts passed: empty, whitespace only, and the aggregates of the trees
ClientTexts ==
    {<<>>, <<Whitespace>>, <<Whitespace, Whitespace>>}
    \cup {AggregateFileContents(FindSourceFiles(Resolve(a), t), FreshAnalyzer).parts :
             a \in ArgPaths, t \in Trees}

InitClient ==
    /\ env = "k3y"
    /\ argPath \in ArgPaths
    /\ pathKind = "dir"
    /\ tree = <<>>
    /\ pc = "analyze"
    /\ caller = "direct"
    /\ directory_path = Resolve(argPath)
    /\ api_key = "k3y"
    /\ code_context \in ClientTexts
    /\ InitCommon

NextClient ==
    \/ GetSuggestionsCall
    \/ GetSuggestionsReturn

SpecClient == InitClient /\ [][NextClient]_vars

----------------------------------------------------------------------------
\* Properties

Count(seq, x) == Cardinality({i \in 1..Len(seq) : seq[i] = x})

\* text occurs in body as a contiguous piece
Embeds(body, text) ==
    \E k \in 0..(Len(body) - Len(text)) : SubSeq(body, k + 1, k + Len(text)) = text

PhaseOrder == <<"EnvironmentCheck", "Scan", "Analyze", "Report", "Done">>

RunEntered == phases # <<>>

\* C1: the phases of run occur only in the order EnvironmentCheck, Scan,
\* Analyze, Report, Done, each entered once and only after the one before it
\* succeeded (connection test passed, aggregate non-empty, suggestions
\* returned); a run that ended ended in Done with exit code 0 or with exit code
\* 1; a run makes at most one validation call, one traversal, one analysis call
\* and one report write.
C1_PhasesInOrder ==
    /\ IsPrefix(phases, PhaseOrder)
    /\ Contains(phases, "Scan") =>
         /\ Contains(stdout, <<"API_CONNECTION_OK">>)
         /\ ~Contains(stdout, <<"API_CONNECTION_FAILED">>)
    /\ Contains(phases, "Analyze") => code_context # <<>>
    /\ Contains(phases, "Report") => suggestions # <<>> /\ Contains(stdout, suggestions)
    /\ \A c \in {"validate", "walk", "analysis", "write"} : Count(calls, c) <= 1
    /\ (pc = "exited" /\ RunEntered) =>
         /\ exitCode \in {0, 1}
         /\ exitCode = 0 <=> phases = PhaseOrder

C1_Witness ==
    /\ pc = "exited"
    /\ exitCode = 0
    /\ phases = PhaseOrder
    /\ calls = <<"validate", "walk", "analysis", "write">>

NetworkCalls == {"validate", "analysis"}

\* C2 as stated: the filesystem traversal comes before any network call.
C2_TraversalBeforeNetwork ==
    \A i \in 1..Len(calls) :
        calls[i] \in NetworkCalls => \E j \in 1..(i - 1) : calls[j] = "walk"

\* C2 as amended: the credential-validation call comes first, then the single
\* traversal, then the analysis call, each started only when the one before it
\* has ended, so at most one is outstanding.
C2_ValidationThenTraversalThenAnalysis ==
    /\ IsPrefix(SelectSeq(calls, LAMBDA c : c # "write"), <<"validate", "walk", "analysis">>)
    /\ pc = "validating" => calls = <<"validate">>
    /\ pc = "aggregating" => calls = <<"validate", "walk">>
    /\ pc = "analyzing" => calls = <<"validate", "walk", "analysis">>
    /\ pc = "saving" => calls = <<"validate", "walk", "analysis">>
    /\ Contains(calls, "write") => calls = <<"validate", "walk", "analysis", "write">>

C2_Witness ==
    /\ pc = "analyzing"
    /\ calls = <<"validate", "walk", "analysis">>

OnlyNonQualifying(t) ==
    \A i \in 1..Len(t) : Lower(t[i].name.ext) \notin SUPPORTED_EXTENSIONS

\* C3 as stated: on a tree with only non-qualifying files the aggregate is
\* empty and run exits 1 without any network call of the run.
C3_ExitWithoutNetworkCall ==
    (pc = "exited" /\ Contains(phases, "Scan") /\ OnlyNonQualifying(tree)) =>
        /\ code_context = <<>>
        /\ exitCode = 1
        /\ \A i \in 1..Len(calls) : calls[i] \notin NetworkCalls

\* C3 as amended: on a tree with only non-qualifying files the scan finds no
\* candidate, the aggregate is empty and run exits 1 without the analysis call
\* and without a report; the validation call of the environment check, made
\* before the scan, is the only network call of the run.
C3_ExitWithoutAnalysisCall ==
    (pc = "exited" /\ RunEntered /\ OnlyNonQualifying(tree)) =>
        /\ exitCode = 1
        /\ code_context = <<>>
        /\ source_files = <<>>
        /\ reports = {}
        /\ IsPrefix(calls, <<"validate", "walk">>)
        /\ Contains(phases, "Scan") => calls = <<"validate", "walk">>

C3_Witness ==
    /\ pc = "exited"
    /\ tree # <<>>
    /\ OnlyNonQualifying(tree)
    /\ calls = <<"validate", "walk">>
    /\ exitCode = 1

\* The directories between the scanned root and a file of the tree
UnderIgnored(e) == \E k \in 1..Len(e.dir) : e.dir[k] \in IGNORED_DIRECTORIES

\* The name of the scanned root directory itself
RootName == directory_path.dirs[Len(directory_path.dirs)]

AllBlocks == {aggregated_parts[k] : k \in 1..Len(aggregated_parts)}
                 \cup {code_context[k] : k \in 1..Len(code_context)}

AllCandidates == {source_files[k] : k \in 1..Len(source_files)}

\* C4 as stated: no file beneath a directory named in the ignore set is a
\* candidate or has a block, the scanned root directory counting as such a
\* directory too.
C4_NothingBeneathIgnoredRootIncluded ==
    /\ \A i \in 1..Len(tree) :
         UnderIgnored(tree[i]) =>
            /\ \A f \in AllCandidates : f.path.name # tree[i].name
            /\ \A b \in AllBlocks : b.file.name # tree[i].name
    /\ (directory_path.dirs # <<>> /\ RootName \in IGNORED_DIRECTORIES) =>
            AllCandidates = {} /\ AllBlocks = {}

\* C4 as amended: no file beneath a directory that lies below the scanned root
\* and is named in the ignore set is a candidate or has a block, whatever its
\* extension; the name of the scanned root itself is not tested.
C4_NothingBeneathIgnoredBelowRoot ==
    \A i \in 1..Len(tree) :
        UnderIgnored(tree[i]) =>
            /\ \A f \in AllCandidates : f.path.name # tree[i].name
            /\ \A b \in AllBlocks : b.file.name # tree[i].name

C4_Witness ==
    /\ code_context # <<>>
    /\ \E i, j \in 1..Len(tree) :
         /\ tree[i].dir = <<"build">>
         /\ tree[j].dir = <<"pkg", "node_modules">>

\* C5: the FILE label of every block is the file's path relative to the
\* scanned root; a root holding the single file a.py with content print(1)
\* yields the one block FILE: a.py, LANGUAGE: Python, print(1).
C5_LabelRelativeToRoot ==
    /\ \A b \in AllBlocks :
         \E i \in 1..Len(tree) :
            b.file = [abs |-> FALSE, dirs |-> tree[i].dir, name |-> tree[i].name]
    /\ (pc = "analyze"
        /\ tree = <<[dir |-> <<>>, name |-> FileName("a", ".py"),
                     content |-> "print(1)", read |-> "ok"]>>) =>
         code_context = <<[file |-> [abs |-> FALSE, dirs |-> <<>>, name |-> FileName("a", ".py")],
                           language |-> "Python",
                           content |-> "print(1)"]>>

\* The candidates the loop of the aggregation has dealt with
Processed == 1..(IF idx - 1 < Len(source_files) THEN idx - 1 ELSE Len(source_files))

HasBlock(f) ==
    \E k \in 1..Len(aggregated_parts) :
        /\ aggregated_parts[k].file.name = f.path.name
        /\ aggregated_parts[k].content = f.content

RECURSIVE ContentBytes(_)
ContentBytes(parts) ==
    IF parts = <<>> THEN 0 ELSE Utf8Len(Head(parts).content) + ContentBytes(Tail(parts))

\* The loop of the aggregation ended before the last candidate
StoppedEarly ==
    /\ pc \notin {"aggregating", "scan", "import", "main", "run", "validating"}
    /\ idx >= 1
    /\ idx <= Len(source_files)

\* C6: a candidate whose content is larger than 1048576 bytes has no block and
\* does not count in files_analyzed or total_size, one of exactly 1048576
\* bytes has its block, and the loop goes on after either: it stops early only
\* on an interruption or on a read error of the file it stopped at.
C6_OversizedSkipped ==
    /\ \A i \in Processed :
         LET f == source_files[i] IN
         /\ (f.read = "ok" /\ Utf8Len(f.content) > 1048576) => ~HasBlock(f)
         /\ (f.read = "ok" /\ Utf8Len(f.content) = 1048576) => HasBlock(f)
    /\ files_analyzed = Len(aggregated_parts)
    /\ total_size = ContentBytes(aggregated_parts)
    /\ (StoppedEarly /\ raised # "KeyboardInterrupt") => source_files[idx].read = raised

C6_Witness ==
    \E i, j, k \in Processed :
        /\ i < j
        /\ source_files[i].content = "OVER_1MiB"
        /\ source_files[j].content = "EXACTLY_1MiB"
        /\ source_files[k].content = "print(1)"
        /\ HasBlock(source_files[j])
        /\ HasBlock(source_files[k])
        /\ files_analyzed = 2
        /\ total_size = 1048584

Unreadable(f) == f.read \in {"UnicodeDecodeError", "PermissionError"}

ReturnedForms == {"NO_CONTENT", "NO_RESPONSE", "RESULTS_BANNER", "ERROR_PREFIX"}

IsFailureMessage(text) == text # <<>> /\ Head(text) = "ERROR_PREFIX"

C9_QuotaAlwaysHinted ==
    (pc = "returned" /\ IsFailureMessage(suggestions) /\ Contains(suggestions, "quota")) =>
        Contains(suggestions, "HINT_QUOTA")

\* C9 as amended: an error text containing "quota" gets the quota hint unless
\* it contains "API_KEY" in some letter case, and then it gets the credential
\* hint and not the quota hint.
C9_QuotaHintedUnlessApiKey ==
    (pc = "returned" /\ IsFailureMessage(suggestions) /\ Contains(suggestions, "quota")) =>
        IF Contains(UpperText(suggestions), "API_KEY")
        THEN Contains(suggestions, "HINT_API_KEY") /\ ~Contains(suggestions, "HINT_QUOTA")
        ELSE Contains(suggestions, "HINT_QUOTA")

C9_Witness ==
    /\ pc = "returned"
    /\ IsFailureMessage(suggestions)
    /\ Contains(suggestions, "quota")
    /\ Contains(suggestions, "network")
    /\ Contains(suggestions, "HINT_QUOTA")

ReportEmbeds(text) ==
    \E r \in reports :
        /\ r.content.directory = directory_path
        /\ Embeds(r.content.body, text)

\* C10 as stated: once get_suggestions has returned its text to run, that text
\* is printed, handed to the report writer and embedded verbatim in the report
\* file, and run returns 0.
C10_TextPrintedReportedAndExitZero ==
    (pc = "exited" /\ suggestions # <<>>) =>
        /\ Contains(stdout, suggestions)
        /\ writerArg = suggestions
        /\ ReportEmbeds(suggestions)
        /\ exitCode = 0

\* C10 as amended: once get_suggestions has returned its text to run, that
\* text is printed; unless the user then interrupts the run, it is handed to
\* the report writer and run returns 0, and the report file embeds it verbatim
\* unless creating the directory or writing the file failed (then a warning is
\* printed); a failure message is treated like any other text.
C10_TextPrintedAndReportedUnlessInterrupted ==
    /\ suggestions # <<>> => Contains(stdout, suggestions)
    /\ (pc = "exited" /\ suggestions # <<>> /\ raised # "KeyboardInterrupt") =>
          /\ writerArg = suggestions
          /\ exitCode = 0
          /\ "could_not_save" \notin warnings => ReportEmbeds(suggestions)

C10_Witness ==
    /\ pc = "exited"
    /\ exitCode = 0
    /\ IsFailureMessage(suggestions)
    /\ Contains(suggestions, "HINT_QUOTA")
    /\ writerArg = suggestions
    /\ ReportEmbeds(suggestions)

\* C11: when creating the output directory or writing the report file fails
\* after the analysis step returned, nothing leaves the report step, only the
\* warning is printed, no report is written, and run returns 0 having reached
\* Done.
C11_SaveFailureIsOnlyAWarning ==
    /\ raised # "OSError"
    /\ "could_not_save" \in warnings =>
          /\ pc = "exited"
          /\ exitCode = 0
          /\ raised = "none"
          /\ phases = PhaseOrder
          /\ writerArg = suggestions
    /\ (pc = "exited" /\ Contains(phases, "Report") /\ raised # "KeyboardInterrupt") =>
          exitCode = 0

C11_Witness ==
    /\ pc = "exited"
    /\ exitCode = 0
    /\ "could_not_save" \in warnings
    /\ calls = <<"validate", "walk", "analysis">>
    /\ reports = {}

\* The last call of analyze_codebase returned an empty aggregate to run
ScanReturnedEmpty ==
    /\ caller = "main"
    /\ results # <<>>
    /\ results[Len(results)].returned
    /\ results[Len(results)].parts = <<>>

\* C12: whenever the aggregate returned by the scan is empty (no candidate
\* files, or every candidate empty, oversized or skipped), run returns 1,
\* get_suggestions is never called and no report file is created or written.
C12_EmptyAggregateStopsRun ==
    ScanReturnedEmpty =>
        /\ pc = "exited"
        /\ exitCode = 1
        /\ code_context = <<>>
        /\ ~Contains(phases, "Analyze")
        /\ ~Contains(calls, "analysis")
        /\ ~Contains(calls, "write")
        /\ suggestions = <<>>
        /\ reports = {}

\* Every candidate was empty, oversized or skipped, and there was one of each
C12_Witness ==
    /\ ScanReturnedEmpty
    /\ pc = "exited"
    /\ exitCode = 1
    /\ \E i, j, k \in 1..Len(source_files) :
          /\ source_files[i].read = "ok" /\ source_files[i].content = ""
          /\ source_files[j].read = "ok" /\ TooLarge(source_files[j].content)
          /\ CaughtByAggregate(source_files[k].read)

\* C13: when the credential environment variable is absent or empty, the
\* failure is detected by the EnvironmentCheck phase of run, which returns 1,
\* and no scan, no network call and no report write is performed.
C13_MissingKeyFailsInEnvironmentCheck ==
    (env \in {"<unset>", ""} /\ pc = "exited") =>
        /\ phases = <<"EnvironmentCheck">>
        /\ exitCode = 1
        /\ raised = "none"
        /\ calls = <<>>
        /\ reports = {}

\* The step is a KeyboardInterrupt reaching a handler of main.py
Interrupted == raised # "KeyboardInterrupt" /\ raised' = "KeyboardInterrupt"

\* C14: a KeyboardInterrupt arriving in any phase inside run (credential
\* validation, scan, remote analysis call, report writing) ends the run with
\* exit code 1 and no later phase, call or report write happens; the exit code
\* is 0 only when it arrives in main outside run, before any work has begun.
C14_InterruptEndsRun ==
    [][Interrupted =>
          /\ pc' = "exited"
          /\ exitCode' = (IF InRun THEN 1 ELSE 0)
          /\ (exitCode' = 0 => pc = "main" /\ phases = <<>> /\ calls = <<>>)
          /\ phases' = phases
          /\ calls' = calls
          /\ reports' = reports
          /\ stdout' = stdout]_vars

\* The interruption came while the remote analysis call was running
C14_Witness ==
    /\ raised = "KeyboardInterrupt"
    /\ pc = "exited"
    /\ exitCode = 1
    /\ phases = <<"EnvironmentCheck", "Scan", "Analyze">>
    /\ calls = <<"validate", "walk", "analysis">>
    /\ suggestions = <<>>

\* The aggregate analyze_codebase gives for a root and a tree, computed from
\* nothing else
AggregateOf(directory, t) ==
    AggregateFileContents(FindSourceFiles(directory, t), FreshAnalyzer).parts

\* C15: calling analyze_codebase again on the same root with an unchanged tree
\* returns the same aggregate: every returned aggregate is the one the tree and
\* the root path alone determine, whatever earlier calls did and whatever the
\* counters hold.
C15_ScanIsIdempotent ==
    /\ \A i, j \in 1..Len(results) :
          (results[i].returned /\ results[j].returned) =>
              results[i].parts = results[j].parts
    /\ \A i \in 1..Len(results) :
          results[i].returned => results[i].parts = AggregateOf(directory_path, tree)

\* A second call returned a non-empty aggregate on an instance whose counters
\* the first call had advanced
C15_Witness ==
    /\ pc = "returned"
    /\ Len(results) = 2
    /\ results[1].returned
    /\ results[2].returned
    /\ Len(results[2].parts) = 2
    /\ files_analyzed = 4

RECURSIVE BlocksOf(_, _)
\* The blocks of the calls in res, one after the other; of the calls that
\* returned only, or of every call
BlocksOf(res, returnedOnly) ==
    IF res = <<>> THEN <<>>
    ELSE (IF returnedOnly /\ ~Head(res).returned THEN <<>> ELSE Head(res).parts)
         \o BlocksOf(Tail(res), returnedOnly)

\* The blocks of the call that is running
BlocksOfRunningCall == IF pc = "aggregating" THEN aggregated_parts ELSE <<>>

\* C16 as stated: after any sequence of calls, files_analyzed is the number of
\* blocks of the returned aggregates and total_size the sum of the byte lengths
\* of their contents.
C16_CountersMatchReturnedAggregates ==
    pc = "returned" =>
        /\ files_analyzed = Len(BlocksOf(results, TRUE))
        /\ total_size = ContentBytes(BlocksOf(results, TRUE))

\* C16: at any moment files_analyzed is the number of blocks built so far over
\* all calls on the instance and total_size the sum of the UTF-8 byte lengths
\* of their contents, the blocks of a call that then raised included; the
\* counters never decrease, and after a first call that returned they are the
\* block count and content size of its aggregate.
C16_CountersMatchBlocksBuilt ==
    /\ [](/\ files_analyzed = Len(BlocksOf(results, FALSE) \o BlocksOfRunningCall)
          /\ total_size = ContentBytes(BlocksOf(results, FALSE) \o BlocksOfRunningCall)
          /\ (pc = "returned" /\ Len(results) = 1 /\ results[1].returned) =>
                /\ files_analyzed = Len(results[1].parts)
                /\ total_size = ContentBytes(results[1].parts))
    /\ [][files_analyzed' >= files_analyzed /\ total_size' >= total_size]_vars

\* Two calls raised, each after it had built a block, so that no aggregate
\* was returned and the counters are not zero
C16_Witness ==
    /\ pc = "returned"
    /\ Len(results) = 2
    /\ ~results[1].returned
    /\ ~results[2].returned
    /\ results[1].parts # <<>>
    /\ files_analyzed = 2 * Len(results[1].parts)
    /\ total_size = 2 * ContentBytes(results[1].parts)

\* The test call of validate_api_key did not give a non-empty response text
ValidationFailed == validation \in {"empty", "Exception"}

\* C17: run enters Scan only after the test call returned a non-empty response
\* text; when that call raised an exception or returned an empty response,
\* validate_api_key returned false, run returned 1, and there was no traversal,
\* no analysis call and no report write.
C17_ScanOnlyAfterValidResponse ==
    /\ (Contains(phases, "Scan") \/ Contains(calls, "walk")) => validation = "text"
    /\ ValidationFailed =>
          /\ pc = "exited"
          /\ exitCode = 1
          /\ raised = "none"
          /\ stdout = << <<"API_CONNECTION_FAILED">> >>
          /\ phases = <<"EnvironmentCheck">>
          /\ calls = <<"validate">>
          /\ source_files = <<>>
          /\ suggestions = <<>>
          /\ reports = {}

\* The test call returned a response without text, on a tree with a source file
C17_Witness ==
    /\ validation = "empty"
    /\ pc = "exited"
    /\ exitCode = 1
    /\ calls = <<"validate">>
    /\ tree # <<>>
    /\ pathKind = "dir"

ReportNames(files) == {r.name : r \in files}

\* C18: across any sequence of runs, a run that writes its report writes it to
\* a file that did not exist before, and a report file once written is never
\* overwritten or changed by a later run.
C18_ReportsNeverOverwritten ==
    [][reports' # reports =>
          /\ reports \subseteq reports'
          /\ ReportNames(reports' \ reports) \cap ReportNames(reports) = {}]_vars

\* A candidate whose read succeeds with non-empty content of at most 1 MiB
Included(f) ==
    /\ f.read = "ok"
    /\ f.content # ""
    /\ Utf8Len(f.content) <= 1048576

\* parts holds one block for each file of files, in the same order
BlocksAre(parts, files) ==
    /\ Len(parts) = Len(files)
    /\ \A k \in 1..Len(files) :
          /\ parts[k].file.name = files[k].path.name
          /\ parts[k].content = files[k].content

\* The last call of analyze_codebase returned
ScanReturned == results # <<>> /\ results[Len(results)].returned

\* C19: the blocks of the aggregate are exactly the candidates whose read
\* succeeded with non-empty content of at most 1 MiB, each once and in the
\* order of the candidate list; a file with empty content has no block.
C19_BlocksAreIncludedCandidatesInOrder ==
    /\ source_files \in {<<>>, FindSourceFiles(directory_path, tree)}
    /\ BlocksAre(aggregated_parts,
                 SelectSeq(SubSeq(source_files, 1, Cardinality(Processed)), Included))
    /\ \A k, l \in 1..Len(aggregated_parts) :
          aggregated_parts[k].file = aggregated_parts[l].file => k = l
    /\ \A k \in 1..Len(aggregated_parts) : aggregated_parts[k].content # ""
    /\ ScanReturned =>
          /\ code_context = aggregated_parts
          /\ BlocksAre(code_context, SelectSeq(source_files, Included))

\* Three candidates, the second one empty: the aggregate holds the first and
\* the third
C19_Witness ==
    /\ ScanReturned
    /\ Len(source_files) = 3
    /\ source_files[2].read = "ok"
    /\ source_files[2].content = ""
    /\ Len(code_context) = 2
    /\ code_context[1].file.name = source_files[1].path.name
    /\ code_context[2].file.name = source_files[3].path.name

\* C20: a read failure that is neither a permission error nor a decode error
\* (the file was removed after the traversal) is not skipped: the aggregation
\* stops at that file, analyze_codebase raises, and run returns 1 with no
\* analysis call and no report, whatever blocks were built before.
C20_OtherReadErrorAbortsRun ==
    /\ \A i \in Processed : source_files[i].read # "FileNotFoundError"
    /\ (pc = "exited" /\ raised # "KeyboardInterrupt"
          /\ idx >= 1 /\ idx <= Len(source_files)) =>
             /\ source_files[idx].read = "FileNotFoundError"
             /\ raised = "FileNotFoundError"
    /\ (raised = "FileNotFoundError" /\ Contains(calls, "walk")) =>
          /\ pc = "exited"
          /\ exitCode = 1
          /\ source_files[idx].read = "FileNotFoundError"
          /\ ~ScanReturned
          /\ code_context = <<>>
          /\ phases = <<"EnvironmentCheck", "Scan">>
          /\ ~Contains(calls, "analysis")
          /\ ~Contains(calls, "write")
          /\ suggestions = <<>>
          /\ reports = {}

\* The file that had disappeared came after one that got its block and before
\* one that could be read
C20_Witness ==
    /\ raised = "FileNotFoundError"
    /\ pc = "exited"
    /\ exitCode = 1
    /\ Len(source_files) = 3
    /\ idx = 2
    /\ Len(aggregated_parts) = 1
    /\ source_files[3].read = "ok"
    /\ calls = <<"validate", "walk">>

\* C21: whenever construction of the configuration succeeded, the credential
\* exposed through api_key is a non-empty string; an environment value that
\* would give an empty credential (unset, empty, whitespace only) makes the
\* construction fail, so that the process never gets past the import.
C21_ExposedCredentialNonEmpty ==
    /\ pc \notin {"import", "exited"} => api_key # ""
    /\ env \in {"<unset>", "", "  "} =>
          /\ pc \in {"import", "exited"}
          /\ phases = <<>>
          /\ calls = <<>>
          /\ (pc = "exited" => raised = "ValueError")

====
